---- MODULE Spec2Model ----
(***************************************************************************)
(* Garden Activity Logger: the SQLite store, the Schema Initializer        *)
(* (Database.init_db), the Data Access Layer (database.py) and the two     *)
(* maintenance scripts (migrate_database.py, fix_database_schema.py).      *)
(*                                                                         *)
(* Conventions of the model                                                *)
(*  - a database is a record [file, shape, rows, seq]: whether the file    *)
(*    exists, the shape of every table ("absent", "plain" = no garden_id   *)
(*    column, "scoped" = garden_id INTEGER NOT NULL), its rows and its     *)
(*    AUTOINCREMENT counter (sqlite_sequence);                             *)
(*  - garden_id = NoCol in a row of a plain table, and as an INSERT        *)
(*    argument it means "the statement does not name the column";          *)
(*  - quantities are in tenths (35 is 3.5); dates are ISO dates written    *)
(*    as the number yyyymmdd, whose numeric order is the text order of     *)
(*    the ISO string; created_at is left out (no operation reads it).      *)
(*  - a connection follows Python's sqlite3 default transaction control:   *)
(*    a transaction is opened implicitly before INSERT/UPDATE/DELETE and   *)
(*    not before any other statement, so DDL executed while no             *)
(*    transaction is open is durable at once.                              *)
(***************************************************************************)
EXTENDS Integers, Sequences, FiniteSets, TLC

VARIABLES db, pc, pre, backup, response, last, scen, procs

vars == <<db, pc, pre, backup, response, last, scen, procs>>

\* ---------------------------------------------------------------- bounds
MaxGardens == 2
MaxRows == 2
MaxHarvests == 3
MaxResponseLen == 4

\* ------------------------------------------------------- program constants
DefaultGardenId == 1
FallbackGardenId == 1
NoCol == 0
CurrentYear == 2026

\* ------------------------------------------------------------ the tables
RealTables ==
    {"gardens", "plant_types", "garden_activities", "harvests", "plants", "plant_journals"}

ChildTables == RealTables \ {"gardens"}

ShadowTables ==
    {"plant_types_new", "garden_activities_new", "harvests_new", "plants_new",
     "plant_journals_new"}

AllTables == RealTables \cup ShadowTables

SetMax(S) == IF S = {} THEN 0 ELSE CHOOSE x \in S : \A y \in S : y <= x

SetMin(S) == CHOOSE x \in S : \A y \in S : x <= y

Ids(d, t) == {r.id : r \in d.rows[t]}

HasGardenId(d, t) == d.shape[t] = "scoped"

Exists(d, t) == d.shape[t] # "absent"

AbsentDb ==
    [file |-> FALSE,
     shape |-> [t \in AllTables |-> "absent"],
     rows |-> [t \in AllTables |-> {}],
     seq |-> [t \in AllTables |-> 0]]

\* ------------------------------------------------------------ connection
\* cur: what the connection sees; snap: the content at the implicit BEGIN;
\* flags and gid: the Python locals the statements set; halt: the function
\* returned early; result: its return value.
Connect(d) ==
    [cur |-> d, snap |-> d, inTx |-> FALSE, err |-> FALSE, halt |-> FALSE,
     result |-> TRUE, flags |-> {}, gid |-> NoCol, rowcount |-> 0, lastrowid |-> 0,
     fkv |-> 0, fk |-> FALSE]

Begin(c) == IF c.inTx THEN c ELSE [c EXCEPT !.snap = c.cur, !.inTx = TRUE]

Commit(c) == [c EXCEPT !.inTx = FALSE, !.snap = c.cur]

Rollback(c) == IF c.inTx THEN [c EXCEPT !.cur = c.snap, !.inTx = FALSE] ELSE c

Fail(c) == [c EXCEPT !.err = TRUE]

\* conn.close(): an open transaction is rolled back.
Close(c) == Rollback(c).cur

\* ------------------------------------------------------- declared foreign keys
\* The FOREIGN KEY clauses of the CREATE TABLE statements, as <<column, parent>>.
ForeignKeys(d, t) ==
    (IF HasGardenId(d, t) THEN {<<"garden_id", "gardens">>} ELSE {})
    \cup (CASE t \in {"harvests", "plants", "harvests_new", "plants_new"} ->
                 {<<"plant_type_id", "plant_types">>}
            [] t \in {"plant_journals", "plant_journals_new"} -> {<<"plant_id", "plants">>}
            [] OTHER -> {})

\* PRAGMA foreign_key_check: the rows whose foreign key has no parent row.
FkViolations(d) ==
    {v \in UNION {{<<t, r.id, fk[1]>> : r \in d.rows[t], fk \in ForeignKeys(d, t)} :
                    t \in ChildTables} :
        LET t == v[1]
            r == CHOOSE x \in d.rows[t] : x.id = v[2]
            parent == CHOOSE fk \in ForeignKeys(d, t) : fk[1] = v[3]
        IN r[v[3]] \notin Ids(d, parent[2])}

\* ON DELETE CASCADE, which SQLite applies only while foreign_keys is ON.
RECURSIVE Cascade(_, _, _)
Cascade(d, t, ids) ==
    IF ids = {} THEN d
    ELSE LET d1 == [d EXCEPT !.rows[t] = {r \in @ : r.id \notin ids}]
             kids == {u \in ChildTables : \E fk \in ForeignKeys(d, u) : fk[2] = t}
             RECURSIVE Sweep(_, _)
             Sweep(dd, us) ==
                 IF us = {} THEN dd
                 ELSE LET u == CHOOSE x \in us : TRUE
                          col == (CHOOSE fk \in ForeignKeys(dd, u) : fk[2] = t)[1]
                          gone == {r.id : r \in {x \in dd.rows[u] : x[col] \in ids}}
                      IN Sweep(Cascade(dd, u, gone), us \ {u})
         IN Sweep(d1, kids)

\* ------------------------------------------------------------- statements
\* A CHECK that also lets "pruning" in.
ActivityTypesWithPruning == {"watering", "fertilizing", "pruning"}

\* CHECK (activity_type IN ('watering', 'fertilizing'))
ActivityTypes == {"watering", "fertilizing"}

Stmt(k, t) ==
    [k |-> k, t |-> t, u |-> "", shape |-> "", when |-> "", row |-> <<>>, id |-> 0]

\* The id an AUTOINCREMENT table gives the next inserted row.
NextId(d, t) ==
    (IF d.seq[t] > SetMax(Ids(d, t)) THEN d.seq[t] ELSE SetMax(Ids(d, t))) + 1

WithId(row, n) == [f \in DOMAIN row \cup {"id"} |-> IF f = "id" THEN n ELSE row[f]]

WithGardenId(r, g) == [f \in DOMAIN r |-> IF f = "garden_id" THEN g ELSE r[f]]

\* A CREATE that replaces the table when it exists.
ExecCreateOrReplace(c, s) ==
    [c EXCEPT !.cur.file = TRUE, !.cur.shape[s.t] = s.shape, !.cur.rows[s.t] = {},
              !.cur.seq[s.t] = 0]

\* CREATE TABLE [IF NOT EXISTS] t (...)
ExecCreate(c, s) ==
    IF Exists(c.cur, s.t)
    THEN IF s.k = "create_if" THEN c ELSE Fail(c)
    ELSE [c EXCEPT !.cur.file = TRUE, !.cur.shape[s.t] = s.shape, !.cur.rows[s.t] = {},
                   !.cur.seq[s.t] = 0]

\* INSERT INTO t (columns) VALUES (...)
ExecInsert(c, s) ==
    LET b == Begin(c)
        d == b.cur
        named == s.t # "gardens" /\ s.row.garden_id # NoCol
    IN  IF ~Exists(d, s.t) THEN Fail(b)
        ELSE IF s.t # "gardens" /\ named /\ ~HasGardenId(d, s.t) THEN Fail(b)
        ELSE IF s.t # "gardens" /\ ~named /\ HasGardenId(d, s.t) THEN Fail(b)
        ELSE IF s.t = "garden_activities" /\ s.row.activity_type \notin ActivityTypes
             THEN Fail(b)
        ELSE IF b.fk /\ \E fk \in ForeignKeys(d, s.t) : s.row[fk[1]] \notin Ids(d, fk[2])
             THEN Fail(b)
        ELSE LET n == NextId(d, s.t)
                 r == WithId(s.row, n)
             IN [b EXCEPT !.cur.rows[s.t] = @ \cup {r}, !.cur.seq[s.t] = n,
                          !.cur.file = TRUE, !.lastrowid = n, !.rowcount = 1]

\* INSERT OR REPLACE in the place of INSERT OR IGNORE.
ExecInsertOrReplace(c, s) ==
    LET b == Begin(c)
        d == b.cur
    IN  IF ~Exists(d, s.t) THEN Fail(b)
        ELSE LET r == WithId(s.row, s.id)
             IN [b EXCEPT !.cur.rows[s.t] = {x \in @ : x.id # s.id} \cup {r},
                          !.cur.seq[s.t] = IF @ > s.id THEN @ ELSE s.id,
                          !.cur.file = TRUE, !.rowcount = 1]

\* INSERT OR IGNORE INTO gardens (id, ...) VALUES (s.id, ...)
ExecInsertOrIgnore(c, s) ==
    LET b == Begin(c)
        d == b.cur
    IN  IF ~Exists(d, s.t) THEN Fail(b)
        ELSE IF s.id \in Ids(d, s.t) THEN [b EXCEPT !.rowcount = 0]
        ELSE LET r == WithId(s.row, s.id)
             IN [b EXCEPT !.cur.rows[s.t] = @ \cup {r},
                          !.cur.seq[s.t] = IF @ > s.id THEN @ ELSE s.id,
                          !.cur.file = TRUE, !.rowcount = 1]

\* An UPDATE that sets the name and leaves the other fields as they are.
ExecUpdateNameOnly(c, s) ==
    LET b == Begin(c)
        d == b.cur
        hit == {r \in d.rows[s.t] : r.id = s.id}
        set(r) == [f \in DOMAIN r |-> IF f = "name" /\ f \in DOMAIN s.row THEN s.row[f]
                                      ELSE r[f]]
    IN  IF ~Exists(d, s.t) THEN Fail(b)
        ELSE [b EXCEPT !.cur.rows[s.t] = (@ \ hit) \cup {set(r) : r \in hit},
                       !.rowcount = Cardinality(hit)]

\* UPDATE t SET (the fields of s.row) WHERE id = s.id
ExecUpdate(c, s) ==
    LET b == Begin(c)
        d == b.cur
        hit == {r \in d.rows[s.t] : r.id = s.id}
        set(r) == [f \in DOMAIN r |-> IF f \in DOMAIN s.row THEN s.row[f] ELSE r[f]]
    IN  IF ~Exists(d, s.t) THEN Fail(b)
        ELSE IF s.t = "garden_activities" /\ hit # {}
                /\ s.row.activity_type \notin ActivityTypes THEN Fail(b)
        ELSE IF b.fk /\ hit # {}
                /\ \E fk \in ForeignKeys(d, s.t) :
                      fk[1] \in DOMAIN s.row /\ s.row[fk[1]] \notin Ids(d, fk[2])
             THEN Fail(b)
        ELSE [b EXCEPT !.cur.rows[s.t] = (@ \ hit) \cup {set(r) : r \in hit},
                       !.rowcount = Cardinality(hit)]

\* DELETE FROM t WHERE id = s.id
ExecDelete(c, s) ==
    LET b == Begin(c)
        d == b.cur
        hit == {r.id : r \in {x \in d.rows[s.t] : x.id = s.id}}
    IN  IF ~Exists(d, s.t) THEN Fail(b)
        ELSE [b EXCEPT !.cur = IF b.fk THEN Cascade(d, s.t, hit)
                                ELSE [d EXCEPT !.rows[s.t] = {r \in @ : r.id \notin hit}],
                       !.rowcount = Cardinality(hit)]

\* The copy with a SELECT that yields no row.
ExecCopyNoRows(c, s) ==
    LET b == Begin(c)
    IN  IF ~Exists(b.cur, s.t) \/ ~Exists(b.cur, s.u) THEN Fail(b)
        ELSE [b EXCEPT !.rowcount = 0]

\* INSERT INTO t (id, [garden_id,] ...) SELECT id, [<constant>,] ... FROM u
\* s.shape = "const": garden_id is the literal 1; "local": the Python local
\* default_garden_id; "": the statement names no garden_id.
ExecCopy(c, s) ==
    LET b == Begin(c)
        d == b.cur
        g == CASE s.shape = "const" -> DefaultGardenId
               [] s.shape = "local" -> b.gid
               [] OTHER -> NoCol
        copied == {WithGardenId(r, g) : r \in d.rows[s.u]}
    IN  IF ~Exists(d, s.t) \/ ~Exists(d, s.u) THEN Fail(b)
        ELSE IF (g # NoCol) # HasGardenId(d, s.t) THEN Fail(b)
        ELSE IF Ids(d, s.t) \cap Ids(d, s.u) # {} THEN Fail(b)
        ELSE [b EXCEPT !.cur.rows[s.t] = @ \cup copied,
                       !.cur.seq[s.t] = IF @ > SetMax(Ids(d, s.u)) THEN @
                                         ELSE SetMax(Ids(d, s.u)),
                       !.rowcount = Cardinality(copied)]

\* DROP TABLE t
ExecDrop(c, s) ==
    IF ~Exists(c.cur, s.t) THEN Fail(c)
    ELSE [c EXCEPT !.cur.shape[s.t] = "absent", !.cur.rows[s.t] = {}, !.cur.seq[s.t] = 0]

\* ALTER TABLE u RENAME TO t
ExecRename(c, s) ==
    IF ~Exists(c.cur, s.u) \/ Exists(c.cur, s.t) THEN Fail(c)
    ELSE [c EXCEPT !.cur.shape[s.t] = c.cur.shape[s.u], !.cur.rows[s.t] = c.cur.rows[s.u],
                   !.cur.seq[s.t] = c.cur.seq[s.u],
                   !.cur.shape[s.u] = "absent", !.cur.rows[s.u] = {}, !.cur.seq[s.u] = 0]

\* PRAGMA foreign_keys = ON | OFF: a no-op inside a transaction.
ExecPragmaFk(c, s) == IF c.inTx THEN c ELSE [c EXCEPT !.fk = (s.shape = "on")]

\* SELECT name FROM sqlite_master WHERE type='table' AND name=t
ExecTableExists(c, s) ==
    [c EXCEPT !.flags = (@ \ {"exists", "missing"})
                        \cup {IF Exists(c.cur, s.t) THEN "exists" ELSE "missing"}]

\* PRAGMA table_info(t); 'garden_id' in columns (no rows for a missing table)
ExecTableInfo(c, s) ==
    [c EXCEPT !.flags = (@ \ {"has_gid", "no_gid"})
                        \cup {IF HasGardenId(c.cur, s.t) THEN "has_gid" ELSE "no_gid"}]

\* SELECT COUNT(*) FROM t [WHERE garden_id ...]; s.shape = "scoped" when the
\* statement reads the garden_id column.
ExecCount(c, s) ==
    IF ~Exists(c.cur, s.t) THEN Fail(c)
    ELSE IF s.shape = "scoped" /\ ~HasGardenId(c.cur, s.t) THEN Fail(c)
    ELSE [c EXCEPT !.flags = (@ \ {"empty"})
                            \cup (IF c.cur.rows[s.t] = {} THEN {"empty"} ELSE {})]

\* The lookup going on with garden 1 when gardens is empty.
ExecFirstGardenOrDefault(c, s) ==
    IF ~Exists(c.cur, s.t) THEN Fail(c)
    ELSE IF c.cur.rows[s.t] = {} THEN [c EXCEPT !.gid = DefaultGardenId]
    ELSE [c EXCEPT !.gid = SetMin(Ids(c.cur, s.t))]

\* SELECT id FROM gardens LIMIT 1 (a scan in rowid order), then
\* "if not default_garden_id: return False".
ExecFirstGarden(c, s) ==
    IF ~Exists(c.cur, s.t) THEN Fail(c)
    ELSE IF c.cur.rows[s.t] = {} THEN [c EXCEPT !.halt = TRUE, !.result = FALSE]
    ELSE [c EXCEPT !.gid = SetMin(Ids(c.cur, s.t))]

\* PRAGMA foreign_key_check, then "if fk_violations: ... conn.rollback();
\* conn.close(); return False".
ExecFkCheck(c, s) ==
    LET n == Cardinality(FkViolations(c.cur))
    IN  IF n = 0 THEN [c EXCEPT !.fkv = 0]
        ELSE [Rollback(c) EXCEPT !.fkv = n, !.halt = TRUE, !.result = FALSE]

Exec(c, s) ==
    CASE s.k \in {"create", "create_if"} -> ExecCreate(c, s)
      [] s.k = "insert" -> ExecInsert(c, s)
      [] s.k = "insert_or_ignore" -> ExecInsertOrIgnore(c, s)
      [] s.k = "update" -> ExecUpdate(c, s)
      [] s.k = "delete" -> ExecDelete(c, s)
      [] s.k = "copy" -> ExecCopy(c, s)
      [] s.k = "drop" -> ExecDrop(c, s)
      [] s.k = "rename" -> ExecRename(c, s)
      [] s.k = "pragma_fk" -> ExecPragmaFk(c, s)
      [] s.k = "table_exists" -> ExecTableExists(c, s)
      [] s.k = "table_info" -> ExecTableInfo(c, s)
      [] s.k = "count" -> ExecCount(c, s)
      [] s.k = "first_garden" -> ExecFirstGarden(c, s)
      [] s.k = "fk_check" -> ExecFkCheck(c, s)
      [] s.k = "commit" -> Commit(c)

\* Runs prog[i..]: a statement under an "if" runs when its flag is set; the
\* statement numbered failAt raises a storage error (sqlite3.Error) instead
\* of running; the first error or early return ends the run.
RECURSIVE RunFrom(_, _, _, _)
RunFrom(c, prog, i, failAt) ==
    IF i > Len(prog) \/ c.err \/ c.halt THEN c
    ELSE LET s == prog[i]
             skip == s.when # "" /\ s.when \notin c.flags
         IN  IF skip THEN RunFrom(c, prog, i + 1, failAt)
             ELSE IF i = failAt THEN Fail(c)
             ELSE RunFrom(Exec(c, s), prog, i + 1, failAt)

\* ------------------------------------------------------------- the rows
GardenRow(name, description, year, location) ==
    [name |-> name, description |-> description, year |-> year, location |-> location]

\* The SQL NULL of a column the INSERT does not name.
Null == "NULL"

DefaultGarden == GardenRow("My Garden", "Default garden", CurrentYear, Null)

PlantTypeRow(g, name, description) ==
    [garden_id |-> g, name |-> name, description |-> description]

HarvestRow(g, pt, quantity, unit, date, notes) ==
    [garden_id |-> g, plant_type_id |-> pt, quantity |-> quantity, unit |-> unit,
     harvest_date |-> date, notes |-> notes]

ActivityRow(g, type, date, notes) ==
    [garden_id |-> g, activity_type |-> type, activity_date |-> date, notes |-> notes]

\* status is not named by add_plant's INSERT: the column default applies.
PlantRow(g, pt, name, planted, location) ==
    [garden_id |-> g, plant_type_id |-> pt, name |-> name, planted_date |-> planted,
     location |-> location, status |-> "active"]

JournalRow(g, plant, date, notes) ==
    [garden_id |-> g, plant_id |-> plant, entry_date |-> date, notes |-> notes]

\* --------------------------------------------------- Schema Initializer
If(s, flag) == [s EXCEPT !.when = flag]

Of(s, shape) == [s EXCEPT !.shape = shape]

From(s, u) == [s EXCEPT !.u = u]

\* The Initializer seeding on every run.
InitDbProgramSeedsAlways ==
    << Of(Stmt("create_if", "gardens"), "plain"),
       [Stmt("insert", "gardens") EXCEPT !.row = DefaultGarden],
       Stmt("table_info", "plant_types"),
       If(Of(Stmt("create_if", "plant_types"), "scoped"), "has_gid"),
       If(Of(Stmt("create_if", "garden_activities"), "scoped"), "has_gid"),
       If(Of(Stmt("create_if", "plant_types"), "plain"), "no_gid"),
       If(Of(Stmt("create_if", "garden_activities"), "plain"), "no_gid"),
       Of(Stmt("create_if", "harvests"), "scoped"),
       Of(Stmt("create_if", "plants"), "scoped"),
       Of(Stmt("create_if", "plant_journals"), "scoped"),
       Stmt("commit", "") >>

\* The Initializer creating plant_types and garden_activities in the legacy
\* shape whatever table_info says.
InitDbProgramLegacyOnly ==
    << Stmt("table_exists", "gardens"),
       Of(Stmt("create_if", "gardens"), "plain"),
       If(Stmt("count", "gardens"), "missing"),
       If([Stmt("insert", "gardens") EXCEPT !.row = DefaultGarden], "empty"),
       Stmt("table_info", "plant_types"),
       Of(Stmt("create_if", "plant_types"), "plain"),
       Of(Stmt("create_if", "garden_activities"), "plain"),
       Of(Stmt("create_if", "harvests"), "scoped"),
       Of(Stmt("create_if", "plants"), "scoped"),
       Of(Stmt("create_if", "plant_journals"), "scoped"),
       Stmt("commit", "") >>

InitDbProgram ==
    << Stmt("table_exists", "gardens"),
       Of(Stmt("create_if", "gardens"), "plain"),
       If(Stmt("count", "gardens"), "missing"),
       If([Stmt("insert", "gardens") EXCEPT !.row = DefaultGarden], "empty"),
       Stmt("table_info", "plant_types"),
       If(Of(Stmt("create_if", "plant_types"), "scoped"), "has_gid"),
       If(Of(Stmt("create_if", "garden_activities"), "scoped"), "has_gid"),
       If(Of(Stmt("create_if", "plant_types"), "plain"), "no_gid"),
       If(Of(Stmt("create_if", "garden_activities"), "plain"), "no_gid"),
       Of(Stmt("create_if", "harvests"), "scoped"),
       Of(Stmt("create_if", "plants"), "scoped"),
       Of(Stmt("create_if", "plant_journals"), "scoped"),
       Stmt("commit", "") >>

\* Database.init_db under get_connection: an exception rolls back and is
\* re-raised, and the connection is closed either way.
InitDb(d) == Close(RunFrom(Connect(d), InitDbProgram, 1, 0))

\* ------------------------------------------------- Multi-Garden Upgrade
\* if 'garden_id' not in columns: CREATE x_new; INSERT ... SELECT; DROP; RENAME
Rebuild(t, shadow, shape, inject, flag) ==
    << If(Of(Stmt("create", shadow), shape), flag),
       If(Of(From(Stmt("copy", shadow), t), inject), flag),
       If(Stmt("drop", t), flag),
       If(From(Stmt("rename", t), shadow), flag) >>

\* The upgrade without its rebuild of harvests, plants and plant_journals.
MigrationProgramTwoTables ==
    << Of(Stmt("pragma_fk", ""), "off"),
       Of(Stmt("create_if", "gardens"), "plain"),
       [Stmt("insert_or_ignore", "gardens") EXCEPT
            !.id = DefaultGardenId, !.row = DefaultGarden],
       Stmt("table_info", "plant_types") >>
    \o Rebuild("plant_types", "plant_types_new", "scoped", "const", "no_gid")
    \o << Stmt("table_info", "garden_activities") >>
    \o Rebuild("garden_activities", "garden_activities_new", "scoped", "const", "no_gid")
    \o << Of(Stmt("pragma_fk", ""), "on"),
          Stmt("fk_check", ""),
          Stmt("commit", ""),
          Stmt("count", "gardens"),
          Of(Stmt("count", "plant_types"), "scoped"),
          Of(Stmt("count", "garden_activities"), "scoped"),
          Stmt("count", "harvests"),
          Stmt("count", "plants"),
          Stmt("count", "plant_journals") >>

\* The upgrade rebuilding plant_types and garden_activities whether or not
\* they have garden_id.
MigrationProgramRebuildsAlways ==
    << Of(Stmt("pragma_fk", ""), "off"),
       Of(Stmt("create_if", "gardens"), "plain"),
       [Stmt("insert_or_ignore", "gardens") EXCEPT
            !.id = DefaultGardenId, !.row = DefaultGarden] >>
    \o Rebuild("plant_types", "plant_types_new", "scoped", "const", "")
    \o Rebuild("garden_activities", "garden_activities_new", "scoped", "const", "")
    \o Rebuild("harvests", "harvests_new", "plain", "", "")
    \o Rebuild("plants", "plants_new", "plain", "", "")
    \o Rebuild("plant_journals", "plant_journals_new", "plain", "", "")
    \o << Of(Stmt("pragma_fk", ""), "on"),
          Stmt("fk_check", ""),
          Stmt("commit", ""),
          Stmt("count", "gardens"),
          Of(Stmt("count", "plant_types"), "scoped"),
          Of(Stmt("count", "garden_activities"), "scoped"),
          Stmt("count", "harvests"),
          Stmt("count", "plants"),
          Stmt("count", "plant_journals") >>

MigrationProgram ==
    << Of(Stmt("pragma_fk", ""), "off"),
       Of(Stmt("create_if", "gardens"), "plain"),
       [Stmt("insert_or_ignore", "gardens") EXCEPT
            !.id = DefaultGardenId, !.row = DefaultGarden],
       Stmt("table_info", "plant_types") >>
    \o Rebuild("plant_types", "plant_types_new", "scoped", "const", "no_gid")
    \o << Stmt("table_info", "garden_activities") >>
    \o Rebuild("garden_activities", "garden_activities_new", "scoped", "const", "no_gid")
    \o Rebuild("harvests", "harvests_new", "plain", "", "")
    \o Rebuild("plants", "plants_new", "plain", "", "")
    \o Rebuild("plant_journals", "plant_journals_new", "plain", "", "")
    \o << Of(Stmt("pragma_fk", ""), "on"),
          Stmt("fk_check", ""),
          Stmt("commit", ""),
          Stmt("count", "gardens"),
          Of(Stmt("count", "plant_types"), "scoped"),
          Of(Stmt("count", "garden_activities"), "scoped"),
          Stmt("count", "harvests"),
          Stmt("count", "plants"),
          Stmt("count", "plant_journals") >>

\* The connection when run_migration / fix_schema returns: "except
\* sqlite3.Error: conn.rollback(); conn.close(); return False".
Finish(c) ==
    IF c.err THEN [Rollback(c) EXCEPT !.result = FALSE] ELSE c

\* run_migration(db_path) with the statement numbered failAt raising
\* (0: none does): [db, result, fkv].
RunMigration(d, failAt) ==
    LET c == Finish(RunFrom(Connect(d), MigrationProgram, 1, failAt))
    IN [db |-> Close(c), result |-> c.result, fkv |-> c.fkv]

\* check_migration_needed with its last return turned into 'return True'.
CheckMigrationNeededReturnsTrue(d, failAt) ==
    IF ~d.file THEN <<FALSE, "no database">>
    ELSE IF failAt = 1 THEN <<FALSE, "error checking">>
    ELSE IF ~Exists(d, "gardens") THEN <<TRUE, "gardens missing">>
    ELSE IF failAt = 2 THEN <<FALSE, "error checking">>
    ELSE IF ~HasGardenId(d, "plant_types") THEN <<TRUE, "plant_types missing garden_id">>
    ELSE IF failAt = 3 THEN <<FALSE, "error checking">>
    ELSE IF ~HasGardenId(d, "garden_activities")
         THEN <<TRUE, "garden_activities missing garden_id">>
    ELSE <<TRUE, "already up to date">>

\* check_migration_needed(db_path): <<needed, message>>. The read numbered
\* failAt (1 sqlite_master, 2 and 3 table_info) raises sqlite3.Error (0: none).
CheckMigrationNeeded(d, failAt) ==
    IF ~d.file THEN <<FALSE, "no database">>
    ELSE IF failAt = 1 THEN <<FALSE, "error checking">>
    ELSE IF ~Exists(d, "gardens") THEN <<TRUE, "gardens missing">>
    ELSE IF failAt = 2 THEN <<FALSE, "error checking">>
    ELSE IF ~HasGardenId(d, "plant_types") THEN <<TRUE, "plant_types missing garden_id">>
    ELSE IF failAt = 3 THEN <<FALSE, "error checking">>
    ELSE IF ~HasGardenId(d, "garden_activities")
         THEN <<TRUE, "garden_activities missing garden_id">>
    ELSE <<FALSE, "already up to date">>

\* No backup file.
NoBackup == [file |-> FALSE]

\* backup_database that copies nothing.
BackupDatabaseSkipped(d) == NoBackup

\* backup_database(db_path): the copy written, none when db_path is absent.
BackupDatabase(d) == IF d.file THEN d ELSE NoBackup

\* ---------------------------------------------- Garden-Scope Schema Fix
\* The fix copying with the literal garden 1 in the place of default_garden_id.
FixProgramGardenOne ==
    << Of(Stmt("pragma_fk", ""), "off"),
       Stmt("first_garden", "gardens"),
       Stmt("table_info", "harvests") >>
    \o Rebuild("harvests", "harvests_new", "scoped", "const", "no_gid")
    \o << Stmt("table_info", "plants") >>
    \o Rebuild("plants", "plants_new", "scoped", "const", "no_gid")
    \o << Stmt("table_info", "plant_journals") >>
    \o Rebuild("plant_journals", "plant_journals_new", "scoped", "const", "no_gid")
    \o << Of(Stmt("pragma_fk", ""), "on"),
          Stmt("commit", ""),
          Of(Stmt("count", "harvests"), "scoped"),
          Of(Stmt("count", "plants"), "scoped"),
          Of(Stmt("count", "plant_journals"), "scoped") >>

FixProgram ==
    << Of(Stmt("pragma_fk", ""), "off"),
       Stmt("first_garden", "gardens"),
       Stmt("table_info", "harvests") >>
    \o Rebuild("harvests", "harvests_new", "scoped", "local", "no_gid")
    \o << Stmt("table_info", "plants") >>
    \o Rebuild("plants", "plants_new", "scoped", "local", "no_gid")
    \o << Stmt("table_info", "plant_journals") >>
    \o Rebuild("plant_journals", "plant_journals_new", "scoped", "local", "no_gid")
    \o << Of(Stmt("pragma_fk", ""), "on"),
          Stmt("commit", ""),
          Of(Stmt("count", "harvests"), "scoped"),
          Of(Stmt("count", "plants"), "scoped"),
          Of(Stmt("count", "plant_journals"), "scoped") >>

FixSchema(d, failAt) ==
    LET c == Finish(RunFrom(Connect(d), FixProgram, 1, failAt))
    IN [db |-> Close(c), result |-> c.result, fkv |-> 0]

\* input(...).strip().lower() in ['y', 'yes']: responses are sequences of
\* characters.
Whitespace == {" ", "\t"}

\* The keys of the operator's answers.
Keys == {"y", "Y", "e", "E", "s", "S", "n"} \cup Whitespace

Lower(ch) ==
    CASE ch = "Y" -> "y" [] ch = "E" -> "e" [] ch = "S" -> "s" [] ch = "N" -> "n"
      [] OTHER -> ch

RECURSIVE LStrip(_)
LStrip(w) == IF w # <<>> /\ Head(w) \in Whitespace THEN LStrip(Tail(w)) ELSE w

RECURSIVE RStrip(_)
RStrip(w) ==
    IF w # <<>> /\ w[Len(w)] \in Whitespace THEN RStrip(SubSeq(w, 1, Len(w) - 1)) ELSE w

Strip(w) == RStrip(LStrip(w))

LowerAll(w) == [i \in 1..Len(w) |-> Lower(w[i])]

\* An answer taken for a yes by its first letter.
ConfirmedByFirstLetter(w) == LowerAll(Strip(w)) # <<>> /\ Head(LowerAll(Strip(w))) = "y"

Confirmed(w) == LowerAll(Strip(w)) \in {<<"y">>, <<"y", "e", "s">>}

\* ------------------------------------------------------ Data Access Layer
\* "with self.get_connection() as conn": one statement, then conn.commit();
\* an exception rolls back and is re-raised. sqlite3.connect leaves
\* foreign_keys at SQLite's default, OFF.
Dal(d, s) ==
    LET c == Exec(Connect(d), s)
    IN  IF c.err THEN [db |-> Close(c), raised |-> TRUE, rowcount |-> 0, id |-> 0]
        ELSE [db |-> Close(Commit(c)), raised |-> FALSE, rowcount |-> c.rowcount,
              id |-> c.lastrowid]

Insert(t, row) == [Stmt("insert", t) EXCEPT !.row = row]

Update(t, id, row) == [Stmt("update", t) EXCEPT !.id = id, !.row = row]

Delete(t, id) == [Stmt("delete", t) EXCEPT !.id = id]

add_garden(d, name, description, year, location) ==
    Dal(d, Insert("gardens", GardenRow(name, description, year, location)))

update_garden(d, id, name, description, year, location) ==
    Dal(d, Update("gardens", id, GardenRow(name, description, year, location)))

delete_garden(d, id) == Dal(d, Delete("gardens", id))

add_plant_type(d, g, name, description) ==
    Dal(d, Insert("plant_types", PlantTypeRow(g, name, description)))

update_plant_type(d, id, name, description) ==
    Dal(d, Update("plant_types", id, [name |-> name, description |-> description]))

delete_plant_type(d, id) == Dal(d, Delete("plant_types", id))

add_harvest(d, g, pt, quantity, unit, date, notes) ==
    Dal(d, Insert("harvests", HarvestRow(g, pt, quantity, unit, date, notes)))

update_harvest(d, id, pt, quantity, unit, date, notes) ==
    Dal(d, Update("harvests", id,
                  [plant_type_id |-> pt, quantity |-> quantity, unit |-> unit,
                   harvest_date |-> date, notes |-> notes]))

delete_harvest(d, id) == Dal(d, Delete("harvests", id))

add_garden_activity(d, g, type, date, notes) ==
    Dal(d, Insert("garden_activities", ActivityRow(g, type, date, notes)))

\* UPDATE garden_activities SET activity_type = ?, activity_date = ?, notes = ?
update_garden_activity(d, id, type, date, notes) ==
    Dal(d, Update("garden_activities", id,
                  [activity_type |-> type, activity_date |-> date, notes |-> notes]))

delete_garden_activity(d, id) == Dal(d, Delete("garden_activities", id))

\* INSERT INTO plants (plant_type_id, name, planted_date, location): the
\* statement names no garden_id.
add_plant(d, pt, name, planted, location) ==
    Dal(d, Insert("plants", PlantRow(NoCol, pt, name, planted, location)))

\* UPDATE plants SET plant_type_id = ?, name = ?, planted_date = ?,
\* location = ?, status = ? WHERE id = ?
update_plant(d, id, pt, name, planted, location, status) ==
    Dal(d, Update("plants", id,
                  [plant_type_id |-> pt, name |-> name, planted_date |-> planted,
                   location |-> location, status |-> status]))

delete_plant(d, id) == Dal(d, Delete("plants", id))

\* INSERT INTO plant_journals (plant_id, entry_date, notes)
add_journal_entry(d, plant, date, notes) ==
    Dal(d, Insert("plant_journals", JournalRow(NoCol, plant, date, notes)))

delete_journal_entry(d, id) == Dal(d, Delete("plant_journals", id))

\* ------------------------------------------------------------- the routes
\* POST /harvests (main.add_harvest): the garden is the plant type's, "else 1"
\* when get_plant_type_by_id finds none; then db.add_harvest. An exception
\* of either call leaves the handler (status 500): [db, status].
post_harvests(d, pt, quantity, unit, date, notes) ==
    IF ~Exists(d, "plant_types") \/ ~HasGardenId(d, "plant_types")
    THEN [db |-> d, status |-> 500]
    ELSE LET found == {r \in d.rows["plant_types"] : r.id = pt}
             g == IF found # {} THEN (CHOOSE r \in found : TRUE).garden_id
                  ELSE FallbackGardenId
             r == add_harvest(d, g, pt, quantity, unit, date, notes)
         IN [db |-> r.db, status |-> IF r.raised THEN 500 ELSE 200]

\* ------------------------------------------------------------ the queries
\* BINARY collation orders TEXT by its bytes; the rank of the names used.
NameRank(n) ==
    CASE n = "Basil" -> 1 [] n = "Cherry Tom #1" -> 2 [] n = "Tomato" -> 3 [] OTHER -> 4

RECURSIVE Sum(_)
Sum(S) == IF S = {} THEN 0 ELSE LET x == CHOOSE y \in S : TRUE IN x[2] + Sum(S \ {x})

\* All the orders in which a SELECT may return the rows S; an ORDER BY
\* keeps those that respect its keys, rows with equal keys in any order.
Orderings(S) ==
    {q \in [1..Cardinality(S) -> S] :
        \A i, j \in 1..Cardinality(S) : i # j => q[i] # q[j]}

\* The elements of S in ascending, and in descending, order.
RECURSIVE SortedAsc(_)
SortedAsc(S) == IF S = {} THEN <<>> ELSE SortedAsc(S \ {SetMax(S)}) \o <<SetMax(S)>>

RECURSIVE SortedDesc(_)
SortedDesc(S) == IF S = {} THEN <<>> ELSE <<SetMax(S)>> \o SortedDesc(S \ {SetMax(S)})

\* SELECT ... FROM harvests h JOIN plant_types pt ON h.plant_type_id = pt.id
\* WHERE h.garden_id = ?
HarvestJoin(d, g) ==
    {[id |-> z[1].id, plant_name |-> z[2].name, quantity |-> z[1].quantity,
      unit |-> z[1].unit, harvest_date |-> z[1].harvest_date, notes |-> z[1].notes] :
        z \in {y \in d.rows["harvests"] \X d.rows["plant_types"] :
                  y[1].garden_id = g /\ y[1].plant_type_id = y[2].id}}

HarvestBefore(a, b) ==
    \/ a.harvest_date > b.harvest_date
    \/ a.harvest_date = b.harvest_date /\ NameRank(a.plant_name) < NameRank(b.plant_name)

\* The Python grouping: a dict keyed by date filled in row order, then the
\* groups by sorted(keys, reverse=True).
GroupByDate(q) ==
    LET dates == SortedDesc({q[i].harvest_date : i \in 1..Len(q)})
    IN [k \in 1..Len(dates) |->
           [date |-> dates[k],
            harvests |-> SelectSeq(q, LAMBDA r : r.harvest_date = dates[k])]]

\* get_harvests(garden_id): the results it may return, or none when the
\* SELECT raises (a table is missing or harvests has no garden_id column).
get_harvests(d, g) ==
    IF ~Exists(d, "harvests") \/ ~Exists(d, "plant_types") \/ ~HasGardenId(d, "harvests")
    THEN {}
    ELSE {GroupByDate(q) :
            q \in {o \in Orderings(HarvestJoin(d, g)) :
                     \A i, j \in 1..Len(o) : i < j => ~HarvestBefore(o[j], o[i])}}

\* SELECT pt.name, h.unit, SUM(h.quantity) ... WHERE pt.garden_id = ?
\* GROUP BY pt.name, h.unit ORDER BY pt.name
SummaryRows(d, g) ==
    LET joined == {z \in d.rows["harvests"] \X d.rows["plant_types"] :
                      z[1].plant_type_id = z[2].id /\ z[2].garden_id = g}
        keys == {<<z[2].name, z[1].unit>> : z \in joined}
    IN {[plant_name |-> k[1], unit |-> k[2],
         total_quantity |->
             Sum({<<z[1].id, z[1].quantity>> :
                    z \in {y \in joined : y[2].name = k[1] /\ y[1].unit = k[2]}})] :
           k \in keys}

SummaryBefore(a, b) == NameRank(a.plant_name) < NameRank(b.plant_name)

get_harvest_summary(d, g) ==
    IF ~Exists(d, "harvests") \/ ~Exists(d, "plant_types") \/ ~HasGardenId(d, "plant_types")
    THEN {}
    ELSE {o \in Orderings(SummaryRows(d, g)) :
            \A i, j \in 1..Len(o) : i < j => ~SummaryBefore(o[j], o[i])}

\* The rank, in BINARY collation, of the garden names used.
GardenNameRank(n) ==
    CASE n = "Herbs" -> 1 [] n = "My Garden" -> 2 [] n = "Plot" -> 3 [] OTHER -> 4

\* ORDER BY year DESC, name
GardenBefore(a, b) ==
    \/ a.year > b.year
    \/ a.year = b.year /\ GardenNameRank(a.name) < GardenNameRank(b.name)

\* get_gardens(): the results it may return, none when the SELECT raises
\* (no gardens table).
get_gardens(d) ==
    IF ~Exists(d, "gardens") THEN {}
    ELSE {o \in Orderings(d.rows["gardens"]) :
            \A i, j \in 1..Len(o) : i < j => ~GardenBefore(o[j], o[i])}

\* The garden_id query parameter: missing, empty, not an integer, or an
\* integer.
QueryParams ==
    {[kind |-> k, value |-> 0] : k \in {"missing", "empty", "invalid"}}
        \cup {[kind |-> "int", value |-> g] : g \in 1..MaxGardens}

\* return db.add_garden("My Garden", "Default garden", datetime.now().year)
CreateDefaultGarden(d) ==
    LET r == add_garden(d, "My Garden", "Default garden", CurrentYear, "")
    IN [db |-> r.db, id |-> r.id, raised |-> r.raised]

\* get_current_garden_id(request): the outcomes [db, id, raised] it may have.
get_current_garden_id(d, param) ==
    IF param.kind = "int" THEN {[db |-> d, id |-> param.value, raised |-> FALSE]}
    ELSE IF get_gardens(d) = {} THEN {[db |-> d, id |-> 0, raised |-> TRUE]}
    ELSE {IF gardens # <<>> THEN [db |-> d, id |-> gardens[1].id, raised |-> FALSE]
          ELSE CreateDefaultGarden(d) : gardens \in get_gardens(d)}

\* ------------------------------------------------- the starting databases
\* A database of the application before the gardens feature: the five
\* tables without garden_id, no gardens table. h: no harvest (0), a harvest
\* of plant type 1 (1), or of a plant type that is gone (2); p: whether a
\* plant with a journal entry exists.
LegacyDb(h, p) ==
    LET hs == IF h = 0 THEN {}
              ELSE {WithId(HarvestRow(NoCol, h, 20, "lbs", 20240801, ""), 1)}
        ps == IF p THEN {WithId(PlantRow(NoCol, 1, "Cherry Tom #1", "", ""), 1)}
              ELSE {}
        js == IF p THEN {WithId(JournalRow(NoCol, 1, 20240801, "sprouted"), 1)}
              ELSE {}
        rs == [t \in AllTables |->
                 CASE t = "plant_types" -> {WithId(PlantTypeRow(NoCol, "Tomato", ""), 1)}
                   [] t = "garden_activities" ->
                        {WithId(ActivityRow(NoCol, "watering", 20240801, ""), 1)}
                   [] t = "harvests" -> hs
                   [] t = "plants" -> ps
                   [] t = "plant_journals" -> js
                   [] OTHER -> {}]
    IN [file |-> TRUE,
        shape |-> [t \in AllTables |-> IF t \in ChildTables THEN "plain" ELSE "absent"],
        rows |-> rs,
        seq |-> [t \in AllTables |-> SetMax({r.id : r \in rs[t]})]]

LegacyDbs == {LegacyDb(h, p) : h \in {0, 1, 2}, p \in BOOLEAN}

FullyScoped(d) == Exists(d, "gardens") /\ \A t \in ChildTables : HasGardenId(d, t)

\* Initializer, Multi-Garden Upgrade, Garden-Scope Schema Fix, in this order.
Pipeline(d) == FixSchema(RunMigration(InitDb(d), 0).db, 0).db

\* ---------------------------------------------------------------- inputs
GardenIds == 1..MaxGardens

RowIds == 1..MaxRows

HarvestIds == 1..MaxHarvests

GardenNames == {"Plot"}

\* <<quantity, unit, harvest_date>>
ScenarioHarvest == <<50, "lbs", 20240801>>

HarvestData == {<<35, "lbs", 20240801>>, <<20, "kg", 20240802>>}

NoRun == [file |-> FALSE]

\* What the caller saw of the last operation. Only the operations the
\* properties below speak of are told apart.
ObservedOps ==
    {"none", "init_db", "delete_garden", "get_harvests", "get_harvest_summary",
     "migrate", "run_migration", "fix", "fix_schema",
     "add_garden_activity", "update_garden_activity", "add_plant",
     "post_harvests", "get_current_garden_id", "update_garden", "update_plant"}

Observed(op, arg, ok, ret) ==
    IF op \in ObservedOps THEN [op |-> op, arg |-> arg, ok |-> ok, ret |-> ret]
    ELSE [op |-> "other", arg |-> 0, ok |-> TRUE, ret |-> <<>>]

\* ------------------------------------------------ the end-to-end scenario
\* The steps of the scenario done so far, counted from an absent database:
\* 1 Initializer, 2 add_plant_type, 3 add_plant, 4 add_harvest, 5 get_harvests,
\* 6 get_harvest_summary. failed: a step raised or returned something else.
\* inits: the Initializer runs so far (2: two or more), nothing else having run.
ScenOff == [step |-> 0, on |-> FALSE, failed |-> FALSE, g |-> 0, pt |-> 0, inits |-> 0]

ScenStart == [ScenOff EXCEPT !.on = TRUE]

ScenStep(sc, step, ok) ==
    IF sc.on /\ ~sc.failed /\ sc.step = step - 1
    THEN IF ok THEN [sc EXCEPT !.step = step] ELSE [sc EXCEPT !.step = step, !.failed = TRUE]
    ELSE ScenOff

Idle == pc = "idle"

Frame == UNCHANGED <<pc, pre, backup, response, procs>>

\* ------------------------------------------------------------ the actions
\* Database(db_path): the process starts and runs init_db. The tables the run
\* created are noted in last.ret.
DoInitDb ==
    /\ Idle
    /\ db' = InitDb(db)
    /\ last' = Observed("init_db", 0, TRUE,
                        <<{t \in AllTables : ~Exists(db, t) /\ Exists(db', t)}>>)
    /\ scen' = IF scen.on /\ scen.step <= 1
               THEN [scen EXCEPT !.step = 1,
                                 !.inits = IF @ < 2 THEN @ + 1 ELSE 2,
                                 !.g = SetMax({r.id : r \in {x \in db'.rows["gardens"] :
                                                              x.name = "My Garden"}})]
               ELSE ScenOff
    /\ Frame

AddGarden ==
    /\ Idle
    /\ NextId(db, "gardens") <= MaxGardens
    /\ \E name \in GardenNames :
         LET r == add_garden(db, name, "", CurrentYear, "")
         IN /\ db' = r.db
            /\ last' = Observed("add_garden", 0, ~r.raised, <<>>)
    /\ scen' = ScenOff
    /\ Frame

\* db.add_garden with one of the names given.
AddGardenNamed(names) ==
    /\ Idle
    /\ NextId(db, "gardens") <= MaxGardens
    /\ \E name \in names :
         LET r == add_garden(db, name, "", CurrentYear, "")
         IN /\ db' = r.db
            /\ last' = Observed("add_garden", 0, ~r.raised, <<>>)
    /\ scen' = ScenOff
    /\ Frame

\* A request handled up to get_current_garden_id(request); last.arg is the
\* integer the parameter holds, 0 when it holds none.
GetCurrentGardenId ==
    /\ Idle
    /\ \E param \in QueryParams :
         \E out \in get_current_garden_id(db, param) :
            /\ db' = out.db
            /\ last' = Observed("get_current_garden_id", param.value, ~out.raised,
                                <<out.id>>)
    /\ scen' = ScenOff
    /\ Frame

DeleteGarden ==
    /\ Idle
    /\ \E g \in GardenIds :
         LET r == delete_garden(db, g)
         IN /\ db' = r.db
            /\ last' = Observed("delete_garden", g, ~r.raised /\ r.rowcount > 0, <<>>)
    /\ scen' = ScenOff
    /\ Frame

AddPlantType(names) ==
    /\ Idle
    /\ NextId(db, "plant_types") <= MaxRows
    /\ \E g \in GardenIds, name \in names :
         LET r == add_plant_type(db, g, name, "")
         IN /\ db' = r.db
            /\ last' = Observed("add_plant_type", 0, ~r.raised, <<>>)
            /\ scen' = IF g = scen.g /\ name = "Tomato"
                       THEN [ScenStep(scen, 2, ~r.raised) EXCEPT !.pt = r.id]
                       ELSE ScenOff
    /\ Frame

UpdatePlantType(names) ==
    /\ Idle
    /\ \E id \in RowIds, name \in names :
         LET r == update_plant_type(db, id, name, "")
         IN /\ db' = r.db
            /\ last' = Observed("update_plant_type", 0, ~r.raised /\ r.rowcount > 0, <<>>)
    /\ scen' = ScenOff
    /\ Frame

DeletePlantType ==
    /\ Idle
    /\ \E id \in RowIds :
         LET r == delete_plant_type(db, id)
         IN /\ db' = r.db
            /\ last' = Observed("delete_plant_type", 0, ~r.raised /\ r.rowcount > 0, <<>>)
    /\ scen' = ScenOff
    /\ Frame

AddHarvest(data, cap) ==
    /\ Idle
    /\ NextId(db, "harvests") <= cap
    /\ \E g \in GardenIds, pt \in RowIds, h \in data :
         LET r == add_harvest(db, g, pt, h[1], h[2], h[3], "")
         IN /\ db' = r.db
            /\ last' = Observed("add_harvest", 0, ~r.raised, <<>>)
            /\ scen' = IF g = scen.g /\ pt = scen.pt /\ h = ScenarioHarvest
                       THEN ScenStep(scen, 4, ~r.raised)
                       ELSE ScenOff
    /\ Frame

PostHarvests(data) ==
    /\ Idle
    /\ NextId(db, "harvests") <= MaxRows
    /\ \E pt \in RowIds, h \in data :
         LET r == post_harvests(db, pt, h[1], h[2], h[3], "")
         IN /\ db' = r.db
            /\ last' = Observed("post_harvests", pt, r.status = 200, <<r.status>>)
    /\ scen' = ScenOff
    /\ Frame

UpdateHarvest(data) ==
    /\ Idle
    /\ \E id \in HarvestIds, pt \in RowIds, h \in data :
         LET r == update_harvest(db, id, pt, h[1], h[2], h[3], "")
         IN /\ db' = r.db
            /\ last' = Observed("update_harvest", 0, ~r.raised /\ r.rowcount > 0, <<>>)
    /\ scen' = ScenOff
    /\ Frame

DeleteHarvest ==
    /\ Idle
    /\ \E id \in HarvestIds :
         LET r == delete_harvest(db, id)
         IN /\ db' = r.db
            /\ last' = Observed("delete_harvest", 0, ~r.raised /\ r.rowcount > 0, <<>>)
    /\ scen' = ScenOff
    /\ Frame

AddGardenActivity(types) ==
    /\ Idle
    /\ NextId(db, "garden_activities") <= MaxRows
    /\ \E g \in GardenIds, type \in types :
         LET r == add_garden_activity(db, g, type, 20240801, "")
         IN /\ db' = r.db
            /\ last' = Observed("add_garden_activity", g, ~r.raised, <<type>>)
    /\ scen' = ScenOff
    /\ Frame

UpdateGardenActivity(types) ==
    /\ Idle
    /\ \E id \in RowIds, type \in types :
         LET r == update_garden_activity(db, id, type, 20240802, "")
         IN /\ db' = r.db
            /\ last' = Observed("update_garden_activity", id, ~r.raised, <<type>>)
    /\ scen' = ScenOff
    /\ Frame

AddPlant ==
    /\ Idle
    /\ NextId(db, "plants") <= MaxRows
    /\ \E pt \in RowIds :
         LET r == add_plant(db, pt, "Cherry Tom #1", "", "")
         IN /\ db' = r.db
            /\ last' = Observed("add_plant", pt, ~r.raised, <<r.id>>)
            /\ scen' = IF pt = scen.pt THEN ScenStep(scen, 3, ~r.raised) ELSE ScenOff
    /\ Frame

AddJournalEntry ==
    /\ Idle
    /\ NextId(db, "plant_journals") <= MaxRows
    /\ \E plant \in RowIds :
         LET r == add_journal_entry(db, plant, 20240801, "sprouted")
         IN /\ db' = r.db
            /\ last' = Observed("add_journal_entry", 0, ~r.raised, <<>>)
    /\ scen' = ScenOff
    /\ Frame

\* The expected results of the scenario's two reads.
ScenHarvests(ret) ==
    /\ Len(ret) = 1
    /\ ret[1].date = 20240801
    /\ Len(ret[1].harvests) = 1
    /\ ret[1].harvests[1].plant_name = "Tomato"
    /\ ret[1].harvests[1].quantity = 50
    /\ ret[1].harvests[1].unit = "lbs"

ScenSummary(ret) ==
    ret = <<[plant_name |-> "Tomato", unit |-> "lbs", total_quantity |-> 50]>>

\* get_harvests raises when the SELECT does: no result then.
GetHarvests ==
    /\ Idle
    /\ \E g \in GardenIds :
         IF get_harvests(db, g) = {}
         THEN /\ last' = Observed("get_harvests", g, FALSE, <<>>)
              /\ scen' = IF g = scen.g THEN ScenStep(scen, 5, FALSE) ELSE ScenOff
         ELSE \E ret \in get_harvests(db, g) :
                 /\ last' = Observed("get_harvests", g, TRUE, ret)
                 /\ scen' = IF g = scen.g THEN ScenStep(scen, 5, ScenHarvests(ret))
                            ELSE ScenOff
    /\ UNCHANGED db
    /\ Frame

GetHarvestSummary ==
    /\ Idle
    /\ \E g \in GardenIds :
         IF get_harvest_summary(db, g) = {}
         THEN /\ last' = Observed("get_harvest_summary", g, FALSE, <<>>)
              /\ scen' = IF g = scen.g THEN ScenStep(scen, 6, FALSE) ELSE ScenOff
         ELSE \E ret \in get_harvest_summary(db, g) :
                 /\ last' = Observed("get_harvest_summary", g, TRUE, ret)
                 /\ scen' = IF g = scen.g THEN ScenStep(scen, 6, ScenSummary(ret))
                            ELSE ScenOff
    /\ UNCHANGED db
    /\ Frame

\* ------------------------------------------------- the maintenance scripts
\* One script runs at a time, with the application stopped. pc: where the
\* running script is; pre: the database as the run found it; backup: the
\* backup file of the run in progress or just ended (the files of earlier
\* runs are not followed); response: the line typed at the prompt.
Script(op, ok, message) == Observed(op, 0, ok, message)

\* migrate_database.main up to the backup: "if not check_migration_needed: return"
MigStart ==
    /\ Idle
    /\ \E failAt \in 0..3 :
         LET chk == CheckMigrationNeeded(db, failAt)
         IN /\ pc' = IF chk[1] THEN "mig_backup" ELSE "idle"
            /\ last' = Script("migrate", chk[1], <<chk[2]>>)
    /\ pre' = db
    /\ backup' = NoBackup
    /\ scen' = ScenOff
    /\ UNCHANGED <<db, response, procs>>

\* backup_path = backup_database(db_path); shutil.copy2 raising ends the run.
MigBackup ==
    /\ pc = "mig_backup"
    /\ \E copied \in BOOLEAN :
         IF copied
         THEN /\ backup' = BackupDatabase(db)
              /\ pc' = "mig_prompt"
              /\ UNCHANGED last
         ELSE /\ backup' = NoBackup
              /\ pc' = "idle"
              /\ last' = Script("migrate", FALSE, <<"backup failed">>)
    /\ UNCHANGED <<db, pre, response, scen, procs>>

\* input(...) returns the line the operator typed.
MigAnswer(answers) ==
    /\ pc = "mig_prompt"
    /\ \E r \in answers : response' = r
    /\ pc' = "mig_read"
    /\ UNCHANGED <<db, pre, backup, last, scen, procs>>

\* "if response not in ['y', 'yes']: print(cancelled); return"
MigConfirm ==
    /\ pc = "mig_read"
    /\ IF Confirmed(response)
       THEN pc' = "mig_run" /\ UNCHANGED last
       ELSE pc' = "idle" /\ last' = Script("migrate", FALSE, <<"cancelled", response>>)
    /\ response' = <<>>
    /\ UNCHANGED <<db, pre, backup, scen, procs>>

\* success = run_migration(db_path), and the closing messages.
MigRun ==
    /\ pc = "mig_run"
    /\ \E failAt \in 0..Len(MigrationProgram) :
         LET r == RunMigration(db, failAt)
         IN /\ db' = r.db
            /\ last' = Observed("run_migration", r.fkv, r.result,
                                <<IF r.result THEN "completed" ELSE "failed">>)
    /\ pc' = "idle"
    /\ UNCHANGED <<pre, backup, response, scen, procs>>

\* run_migration(db_path) called on its own, without the script's check,
\* backup and prompt.
CallRunMigration ==
    /\ Idle
    /\ \E failAt \in 0..Len(MigrationProgram) :
         LET r == RunMigration(db, failAt)
         IN /\ db' = r.db
            /\ last' = Observed("run_migration", r.fkv, r.result,
                                <<IF r.result THEN "completed" ELSE "failed">>)
    /\ pre' = db
    /\ backup' = NoBackup
    /\ scen' = ScenOff
    /\ UNCHANGED <<pc, response, procs>>

\* fix_database_schema.main up to the backup: "if not os.path.exists: return"
FixStart ==
    /\ Idle
    /\ pc' = IF db.file THEN "fix_backup" ELSE "idle"
    /\ last' = Script("fix", db.file, <<IF db.file THEN "found" ELSE "no database">>)
    /\ pre' = db
    /\ backup' = NoBackup
    /\ scen' = ScenOff
    /\ UNCHANGED <<db, response, procs>>

FixBackup ==
    /\ pc = "fix_backup"
    /\ \E copied \in BOOLEAN :
         IF copied
         THEN /\ backup' = BackupDatabase(db)
              /\ pc' = "fix_prompt"
              /\ UNCHANGED last
         ELSE /\ backup' = NoBackup
              /\ pc' = "idle"
              /\ last' = Script("fix", FALSE, <<"backup failed">>)
    /\ UNCHANGED <<db, pre, response, scen, procs>>

FixAnswer(answers) ==
    /\ pc = "fix_prompt"
    /\ \E r \in answers : response' = r
    /\ pc' = "fix_read"
    /\ UNCHANGED <<db, pre, backup, last, scen, procs>>

FixConfirm ==
    /\ pc = "fix_read"
    /\ IF Confirmed(response)
       THEN pc' = "fix_run" /\ UNCHANGED last
       ELSE pc' = "idle" /\ last' = Script("fix", FALSE, <<"cancelled", response>>)
    /\ response' = <<>>
    /\ UNCHANGED <<db, pre, backup, scen, procs>>

FixRun ==
    /\ pc = "fix_run"
    /\ \E failAt \in 0..Len(FixProgram) :
         LET r == FixSchema(db, failAt)
         IN /\ db' = r.db
            /\ last' = Observed("fix_schema", 0, r.result,
                                <<IF r.result THEN "completed" ELSE "failed">>)
    /\ pc' = "idle"
    /\ UNCHANGED <<pre, backup, response, scen, procs>>

\* ------------------------------------------- concurrent Initializer runs
\* Two server processes started on the same database file: each constructs
\* Database(db_path) and runs init_db on a connection of its own, one
\* statement at a time. procs[w]: the statement of InitDbProgram process w
\* is at (0: not started, Returned: init_db has ended), its connection, how
\* the run ended, and the Data Access Layer call it makes, if it makes one.
Workers == {1, 2}

Returned == Len(InitDbProgram) + 1

\* No Data Access Layer call: the process runs init_db.
NoCall == Stmt("", "")

NoProcs == [w \in Workers |-> [at |-> 0, c |-> Connect(AbsentDb), outcome |-> "none",
                                call |-> NoCall, ret |-> 0]]

\* What a connection reads: outside a transaction the committed database,
\* inside one its own pending changes as well.
View(c) == IF c.inTx THEN c ELSE [c EXCEPT !.cur = db, !.snap = db]

\* The statements that need SQLite's write lock.
Writes(c, s) ==
    \/ s.k \in {"insert", "update", "delete"}
    \/ s.k = "create_if" /\ ~Exists(c.cur, s.t)

\* Another connection holds the write lock: its transaction is open.
LockedOut(w) == \E v \in Workers \ {w} : procs[v].c.inTx

\* Whether process w is at a statement that has to wait for the write lock.
Waits(w) ==
    /\ procs[w].at \in 1..Len(InitDbProgram)
    /\ LET s == InitDbProgram[procs[w].at]
           c == View(procs[w].c)
       IN /\ s.when = "" \/ s.when \in c.flags
          /\ Writes(c, s)
          /\ ~c.inTx
          /\ LockedOut(w)

\* conn = sqlite3.connect(self.db_path)
InitDbStart(w) ==
    /\ Idle
    /\ procs[w].at = 0
    /\ procs' = [procs EXCEPT ![w] = [at |-> 1, c |-> Connect(db), outcome |-> "none",
                                call |-> NoCall, ret |-> 0]]
    /\ scen' = ScenOff
    /\ UNCHANGED <<db, pc, pre, backup, response, last>>

\* The next statement of init_db in process w; a statement outside a
\* transaction is durable at once, conn.commit() publishes the transaction,
\* an exception rolls back and ends the run.
InitDbStep(w) ==
    /\ Idle
    /\ procs[w].at \in 1..Len(InitDbProgram)
    /\ ~Waits(w)
    /\ LET p == procs[w]
           s == InitDbProgram[p.at]
           c == View(p.c)
           c1 == IF s.when # "" /\ s.when \notin c.flags THEN c ELSE Exec(c, s)
       IN  IF c1.err
           THEN /\ procs' = [procs EXCEPT ![w] = [at |-> Returned, c |-> Rollback(c1),
                                                  outcome |-> "raised",
                                call |-> NoCall, ret |-> 0]]
                /\ db' = db
           ELSE /\ procs' = [procs EXCEPT ![w] =
                               [at |-> p.at + 1, c |-> c1,
                                outcome |-> IF p.at + 1 = Returned THEN "ok" ELSE "none",
                                call |-> NoCall, ret |-> 0]]
                /\ db' = IF c1.inTx THEN db ELSE c1.cur
    /\ scen' = ScenOff
    /\ UNCHANGED <<pc, pre, backup, response, last>>

\* The lock was not released within the connection's busy timeout: the
\* statement raises "database is locked" and get_connection re-raises.
InitDbLocked(w) ==
    /\ Idle
    /\ Waits(w)
    /\ procs' = [procs EXCEPT ![w] = [at |-> Returned, c |-> Rollback(Fail(View(procs[w].c))),
                                      outcome |-> "locked",
                                call |-> NoCall, ret |-> 0]]
    /\ scen' = ScenOff
    /\ UNCHANGED <<db, pc, pre, backup, response, last>>

\* ------------------------------------------- concurrent update calls
\* Two requests, each in update_garden or update_plant on a connection of
\* its own: the UPDATE, which opens the transaction, then conn.commit().
UpdateCalls ==
    {Update("gardens", 1, GardenRow("Herbs", "north", CurrentYear, "bed a")),
     Update("gardens", 1, GardenRow("Plot", "south", CurrentYear + 1, "bed b")),
     Update("plants", 1, [plant_type_id |-> 1, name |-> "Roma", planted_date |-> "",
                          location |-> "bed a", status |-> "active"]),
     Update("plants", 1, [plant_type_id |-> 2, name |-> "Sungold",
                          planted_date |-> "2024-05-01", location |-> "bed b",
                          status |-> "harvested"])}

UpdateProgram(call) == <<call, Stmt("commit", "")>>

UpdateReturned == Len(UpdateProgram(NoCall)) + 1

\* Whether the UPDATE of process w has to wait for the write lock.
UpdateWaits(w) ==
    /\ procs[w].at = 1
    /\ ~procs[w].c.inTx
    /\ LockedOut(w)

\* The call is made: conn = sqlite3.connect(self.db_path)
UpdateStart(w) ==
    /\ Idle
    /\ procs[w].at = 0
    /\ \E call \in UpdateCalls :
         procs' = [procs EXCEPT ![w] = [at |-> 1, c |-> Connect(db), outcome |-> "none",
                                        call |-> call, ret |-> 0]]
    /\ scen' = ScenOff
    /\ UNCHANGED <<db, pc, pre, backup, response, last>>

\* The next statement of the call of process w; after conn.commit() the
\* call returns cursor.rowcount > 0.
UpdateStep(w) ==
    /\ Idle
    /\ procs[w].call # NoCall
    /\ procs[w].at \in 1..Len(UpdateProgram(procs[w].call))
    /\ ~UpdateWaits(w)
    /\ LET p == procs[w]
           c1 == Exec(View(p.c), UpdateProgram(p.call)[p.at])
           op == IF p.call.t = "gardens" THEN "update_garden" ELSE "update_plant"
       IN  IF c1.err
           THEN /\ procs' = [procs EXCEPT ![w] = [p EXCEPT !.at = UpdateReturned,
                                                           !.c = Rollback(c1),
                                                           !.outcome = "raised"]]
                /\ UNCHANGED <<db, last>>
           ELSE /\ procs' = [procs EXCEPT ![w] =
                               [p EXCEPT !.at = p.at + 1, !.c = c1,
                                         !.outcome = IF p.at + 1 = UpdateReturned
                                                     THEN "ok" ELSE "none"]]
                /\ db' = IF c1.inTx THEN db ELSE c1.cur
                /\ last' = IF p.at + 1 = UpdateReturned
                           THEN Observed(op, w, c1.rowcount > 0, <<p.call.id>>)
                           ELSE last
    /\ scen' = ScenOff
    /\ UNCHANGED <<pc, pre, backup, response>>

\* The lock was not released within the busy timeout: the UPDATE raises
\* "database is locked", get_connection rolls back and re-raises.
UpdateLocked(w) ==
    /\ Idle
    /\ procs[w].call # NoCall
    /\ UpdateWaits(w)
    /\ procs' = [procs EXCEPT ![w] = [procs[w] EXCEPT !.at = UpdateReturned,
                                                      !.c = Rollback(Fail(procs[w].c)),
                                                      !.outcome = "locked"]]
    /\ scen' = ScenOff
    /\ UNCHANGED <<db, pc, pre, backup, response, last>>

\* ------------------------------------- concurrent get_current_garden_id
\* Two requests without a usable garden_id, each served by a process of its
\* own: db.get_gardens() on one connection, then, when it returned no
\* garden, db.add_garden("My Garden", ...) on another: the INSERT, which
\* opens the transaction, then conn.commit(). ret: the id the call returned.
DefaultGardenCall ==
    Insert("gardens", GardenRow("My Garden", "Default garden", CurrentYear, ""))

ResolveProgram == <<Stmt("select", "gardens")>> \o UpdateProgram(DefaultGardenCall)

ResolveReturned == Len(ResolveProgram) + 1

\* Whether the INSERT of process w has to wait for the write lock.
ResolveWaits(w) ==
    /\ procs[w].at = 2
    /\ ~procs[w].c.inTx
    /\ LockedOut(w)

\* The request arrives; pre: the database when the first of them did.
ResolveStart(w) ==
    /\ Idle
    /\ procs[w].at = 0
    /\ procs' = [procs EXCEPT ![w] = [at |-> 1, c |-> Connect(db), outcome |-> "none",
                                      call |-> DefaultGardenCall, ret |-> 0]]
    /\ pre' = IF \A v \in Workers : procs[v].at = 0 THEN db ELSE pre
    /\ scen' = ScenOff
    /\ UNCHANGED <<db, pc, backup, response, last>>

\* gardens = db.get_gardens(); if gardens: return gardens[0]['id']
ResolveRead(w) ==
    /\ Idle
    /\ procs[w].call = DefaultGardenCall
    /\ procs[w].at = 1
    /\ LET p == procs[w]
       IN  IF get_gardens(db) = {}
           THEN /\ procs' = [procs EXCEPT ![w] = [p EXCEPT !.at = ResolveReturned,
                                                           !.outcome = "raised"]]
                /\ last' = Observed("get_current_garden_id", w, FALSE, <<0>>)
           ELSE \E gardens \in get_gardens(db) :
                   IF gardens # <<>>
                   THEN /\ procs' = [procs EXCEPT ![w] =
                                       [p EXCEPT !.at = ResolveReturned, !.outcome = "ok",
                                                 !.ret = gardens[1].id]]
                        /\ last' = Observed("get_current_garden_id", w, TRUE,
                                            <<gardens[1].id>>)
                   ELSE /\ procs' = [procs EXCEPT ![w] = [p EXCEPT !.at = 2,
                                                                   !.c = Connect(db)]]
                        /\ last' = last
    /\ scen' = ScenOff
    /\ UNCHANGED <<db, pc, pre, backup, response>>

\* The next statement of add_garden in process w; after conn.commit() the
\* call returns cursor.lastrowid.
ResolveStep(w) ==
    /\ Idle
    /\ procs[w].call = DefaultGardenCall
    /\ procs[w].at \in 2..Len(ResolveProgram)
    /\ ~ResolveWaits(w)
    /\ LET p == procs[w]
           c1 == Exec(View(p.c), ResolveProgram[p.at])
       IN  IF c1.err
           THEN /\ procs' = [procs EXCEPT ![w] = [p EXCEPT !.at = ResolveReturned,
                                                           !.c = Rollback(c1),
                                                           !.outcome = "raised"]]
                /\ UNCHANGED <<db, last>>
           ELSE /\ procs' = [procs EXCEPT ![w] =
                               [p EXCEPT !.at = p.at + 1, !.c = c1,
                                         !.outcome = IF p.at + 1 = ResolveReturned
                                                     THEN "ok" ELSE "none",
                                         !.ret = IF p.at + 1 = ResolveReturned
                                                 THEN c1.lastrowid ELSE 0]]
                /\ db' = IF c1.inTx THEN db ELSE c1.cur
                /\ last' = IF p.at + 1 = ResolveReturned
                           THEN Observed("get_current_garden_id", w, TRUE,
                                         <<c1.lastrowid>>)
                           ELSE last
    /\ scen' = ScenOff
    /\ UNCHANGED <<pc, pre, backup, response>>

\* The busy timeout runs out while the other connection's transaction is
\* open: the INSERT raises "database is locked".
ResolveLocked(w) ==
    /\ Idle
    /\ procs[w].call = DefaultGardenCall
    /\ ResolveWaits(w)
    /\ procs' = [procs EXCEPT ![w] = [procs[w] EXCEPT !.at = ResolveReturned,
                                                      !.c = Rollback(Fail(procs[w].c)),
                                                      !.outcome = "locked"]]
    /\ scen' = ScenOff
    /\ UNCHANGED <<db, pc, pre, backup, response, last>>

\* ------------------------------------------- the Data Access Layer at work
\* From an absent database, or from one brought to the garden-scoped schema
\* by the pipeline (empty, or a legacy one with a harvest, a plant and a
\* journal entry): every operation on every table.
InitAt(dbs) ==
    /\ db \in dbs
    /\ pc = "idle"
    /\ pre = NoRun
    /\ backup = NoBackup
    /\ response = <<>>
    /\ last = Observed("none", 0, TRUE, <<>>)
    /\ scen = IF db = AbsentDb THEN ScenStart ELSE ScenOff
    /\ procs = NoProcs

InitDal == InitAt({AbsentDb, Pipeline(AbsentDb), Pipeline(LegacyDb(1, TRUE))})

NextDal ==
    \/ DoInitDb
    \/ AddGarden
    \/ DeleteGarden
    \/ AddPlantType({"Tomato"})
    \/ DeletePlantType
    \/ AddHarvest({ScenarioHarvest}, MaxRows)
    \/ PostHarvests({ScenarioHarvest})
    \/ DeleteHarvest
    \/ AddGardenActivity({"watering"})
    \/ AddPlant
    \/ AddJournalEntry
    \/ GetHarvests
    \/ GetHarvestSummary

SpecDal == InitDal /\ [][NextDal]_vars

\* ------------------------------------------------- the harvest read models
\* On the garden-scoped schema, two gardens' plant types and harvests.
InitHarvest == InitAt({Pipeline(AbsentDb)})

NextHarvest ==
    \/ AddGarden
    \/ AddPlantType({"Basil", "Tomato"})
    \/ UpdatePlantType({"Basil", "Tomato"})
    \/ AddHarvest(HarvestData, MaxHarvests)
    \/ UpdateHarvest(HarvestData)
    \/ DeleteHarvest
    \/ GetHarvests
    \/ GetHarvestSummary

SpecHarvest == InitHarvest /\ [][NextHarvest]_vars

\* ------------------------------------------------ the scripts at work
\* From no database or a legacy one: the Initializer, the two scripts with
\* a plain yes or no at the prompt, and gardens added and deleted.
YesOrNo == {<<"y">>, <<"n">>}

Init == InitAt({AbsentDb} \cup LegacyDbs)

Next ==
    \/ DoInitDb
    \/ AddGarden
    \/ DeleteGarden
    \/ MigStart
    \/ MigBackup
    \/ MigAnswer(YesOrNo)
    \/ MigConfirm
    \/ MigRun
    \/ FixStart
    \/ FixBackup
    \/ FixAnswer(YesOrNo)
    \/ FixConfirm
    \/ FixRun

Spec == Init /\ [][Next]_vars

\* ------------------------------------------------ the confirmation prompt
\* The two scripts alone on a legacy database with a harvest, a plant and a
\* journal entry, with every answer of up to MaxResponseLen keys.
Answers == UNION {[1..n -> Keys] : n \in 0..MaxResponseLen}

InitPrompt == InitAt({LegacyDb(1, TRUE)})

NextPrompt ==
    \/ MigStart
    \/ MigBackup
    \/ MigAnswer(Answers)
    \/ MigConfirm
    \/ MigRun
    \/ FixStart
    \/ FixBackup
    \/ FixAnswer(Answers)
    \/ FixConfirm
    \/ FixRun

SpecPrompt == InitPrompt /\ [][NextPrompt]_vars

\* ------------------------------------------------ the garden activities
\* From no database or a legacy one: the Initializer and the Multi-Garden
\* Upgrade give garden_activities each of its shapes; activities are added
\* and updated with an allowed and with another activity_type.
NextActivity ==
    \/ DoInitDb
    \/ AddGarden
    \/ MigStart
    \/ MigBackup
    \/ MigAnswer(YesOrNo)
    \/ MigConfirm
    \/ MigRun
    \/ AddGardenActivity({"watering", "pruning"})
    \/ UpdateGardenActivity({"fertilizing", "pruning"})

SpecActivity == Init /\ [][NextActivity]_vars

\* ------------------------------------------------ two processes starting
\* From no database or a legacy one, two processes run the Initializer with
\* their statements interleaved.
NextRace ==
    \/ \E w \in Workers : InitDbStart(w)
    \/ \E w \in Workers : InitDbStep(w)
    \/ \E w \in Workers : InitDbLocked(w)

SpecRace == Init /\ [][NextRace]_vars

\* ------------------------------------------------ the upgrade on its own
\* From no database or a legacy one with a harvest, a plant and a journal
\* entry: the Initializer, gardens, plant types and activities added, and
\* run_migration called whatever the schema is.
InitUpgrade == InitAt({AbsentDb, LegacyDb(1, TRUE)})

NextUpgrade ==
    \/ DoInitDb
    \/ AddGarden
    \/ AddPlantType({"Tomato"})
    \/ AddGardenActivity({"watering"})
    \/ CallRunMigration

SpecUpgrade == InitUpgrade /\ [][NextUpgrade]_vars

\* ------------------------------------------------ the Initializer alone
\* The Initializer started on a database file holding any of the six tables,
\* each child table with or without garden_id, all of them empty. The files
\* the application and its scripts produce are among these.
Shapes ==
    {sh \in [RealTables -> {"absent", "plain", "scoped"}] : sh["gardens"] # "scoped"}

ShapedDb(sh) ==
    [file |-> \E t \in RealTables : sh[t] # "absent",
     shape |-> [t \in AllTables |-> IF t \in RealTables THEN sh[t] ELSE "absent"],
     rows |-> [t \in AllTables |-> {}],
     seq |-> [t \in AllTables |-> 0]]

InitShapes == InitAt({ShapedDb(sh) : sh \in Shapes})

NextShapes == DoInitDb

SpecShapes == InitShapes /\ [][NextShapes]_vars

\* ------------------------------------------------ the current garden
\* From an absent database or one brought to the garden-scoped schema: the
\* Initializer, gardens added and deleted, and requests resolved to their
\* garden.
NextCurrent ==
    \/ DoInitDb
    \/ AddGardenNamed({"Herbs", "Plot"})
    \/ DeleteGarden
    \/ GetCurrentGardenId

SpecCurrent == InitDal /\ [][NextCurrent]_vars

\* ------------------------------------------------ two updates at once
\* On the garden-scoped schema with a garden, two plant types and a plant:
\* two requests update a garden or a plant, their statements interleaved.
InitUpdates ==
    InitAt({add_plant_type(Pipeline(LegacyDb(1, TRUE)), 1, "Basil", "").db})

NextUpdates ==
    \/ \E w \in Workers : UpdateStart(w)
    \/ \E w \in Workers : UpdateStep(w)
    \/ \E w \in Workers : UpdateLocked(w)

SpecUpdates == InitUpdates /\ [][NextUpdates]_vars


\* ---------------------------------- two requests resolving their garden
\* On a garden-scoped database with its default garden, or with the last
\* garden deleted; or on a file the Initializer never ran on.
ResolveDbs ==
    LET ds == {Pipeline(AbsentDb)} \cup {Pipeline(d) : d \in LegacyDbs}
    IN  {AbsentDb} \cup ds \cup {delete_garden(d, DefaultGardenId).db : d \in ds}

InitResolve == InitAt(ResolveDbs)

NextResolve ==
    \/ \E w \in Workers : ResolveStart(w)
    \/ \E w \in Workers : ResolveRead(w)
    \/ \E w \in Workers : ResolveStep(w)
    \/ \E w \in Workers : ResolveLocked(w)

SpecResolve == InitResolve /\ [][NextResolve]_vars

\* ================================================================ claims
\* The rows of the child tables scoped to garden g, as <<table, id>>:
\* by their garden_id, through a plant type of g, or through a plant of g.
ScopedTo(d, g) ==
    LET direct == UNION {{<<t, r.id>> : r \in {x \in d.rows[t] : x.garden_id = g}} :
                           t \in ChildTables}
        types == {r.id : r \in {x \in d.rows["plant_types"] : x.garden_id = g}}
        ofType(t) == {<<t, r.id>> : r \in {x \in d.rows[t] : x.plant_type_id \in types}}
        plants == {r.id : r \in {x \in d.rows["plants"] :
                                    x.garden_id = g \/ x.plant_type_id \in types}}
        ofPlant == {<<"plant_journals", r.id>> :
                      r \in {x \in d.rows["plant_journals"] : x.plant_id \in plants}}
    IN direct \cup ofType("harvests") \cup ofType("plants") \cup ofPlant

\* C1: after delete_garden(G) returns true, no row of plant_types, plants,
\* harvests, garden_activities or plant_journals that was scoped to G,
\* directly or through a plant type or plant of G, remains.
C1_CascadeComplete ==
    [][(last'.op = "delete_garden" /\ last'.ok)
          => \A p \in ScopedTo(db, last'.arg) : p[2] \notin Ids(db', p[1])]_vars

\* C2: from an absent database, Initializer, add_plant_type(default garden,
\* "Tomato"), add_plant(that type, "Cherry Tom #1"), add_harvest(garden, that
\* type, 5.0, "lbs", "2024-08-01") all succeed, and then get_harvests and
\* get_harvest_summary return the one group and the one row expected.
C2_ScenarioSucceeds == scen.on => ~scen.failed

\* C3: on the garden-scoped schema every row of plant_types, plants,
\* harvests, garden_activities and plant_journals has the garden_id of a
\* garden row that exists.
C3_GardenIdsValid ==
    FullyScoped(db) =>
        \A t \in ChildTables : \A r \in db.rows[t] : r.garden_id \in Ids(db, "gardens")

\* C4: get_harvest_summary(G) has exactly one row for each (plant type name,
\* unit) pair among the harvests whose garden_id is G, the harvests that
\* get_harvests(G) lists, with the sum of their quantities, and no other row.
C4_SummaryOfListedHarvests ==
    (last.op = "get_harvest_summary" /\ last.ok) =>
        LET listed == HarvestJoin(db, last.arg)
            pairs == {<<h.plant_name, h.unit>> : h \in listed}
            total(k) == Sum({<<h.id, h.quantity>> :
                               h \in {x \in listed : x.plant_name = k[1] /\ x.unit = k[2]}})
        IN /\ Len(last.ret) = Cardinality(pairs)
           /\ {last.ret[i] : i \in 1..Len(last.ret)} =
                  {[plant_name |-> k[1], unit |-> k[2], total_quantity |-> total(k)] :
                      k \in pairs}

\* C5: get_harvests(G) returns date groups with strictly descending dates;
\* within a group the entries are in ascending plant-type-name order and
\* carry the group's date; every harvest listed has garden_id G.
C5_HarvestGroupsOrdered ==
    (last.op = "get_harvests" /\ last.ok) =>
        LET ret == last.ret
        IN /\ \A i, j \in 1..Len(ret) : i < j => ret[i].date > ret[j].date
           /\ \A k \in 1..Len(ret) :
                 LET hs == ret[k].harvests
                 IN /\ \A i, j \in 1..Len(hs) :
                          i < j => NameRank(hs[i].plant_name) <= NameRank(hs[j].plant_name)
                    /\ \A i \in 1..Len(hs) :
                          /\ hs[i].harvest_date = ret[k].date
                          /\ \E h \in db.rows["harvests"] :
                                h.id = hs[i].id /\ h.garden_id = last.arg

\* Two date groups are returned, the first holding two entries of different
\* plant types.
C5_Witness ==
    /\ last.op = "get_harvests" /\ last.ok
    /\ Len(last.ret) = 2
    /\ Len(last.ret[1].harvests) = 2
    /\ last.ret[1].harvests[1].plant_name # last.ret[1].harvests[2].plant_name

\* C6: on a database that started absent, the second and later Initializer
\* runs in a row change nothing, and exactly one garden row, the default
\* "My Garden", exists after any number of runs.
C6_SeedOnce ==
    [][(scen'.on /\ scen'.step = 1) =>
          /\ \E r \in db'.rows["gardens"] :
                r.name = "My Garden" /\ db'.rows["gardens"] = {r}
          /\ (scen.step = 1 => db' = db)]_vars

C6_Witness == scen.on /\ scen.step = 1 /\ scen.inits = 2

\* The schema check_migration_needed takes for upgraded.
Upgraded(d) ==
    /\ d.file
    /\ Exists(d, "gardens")
    /\ HasGardenId(d, "plant_types")
    /\ HasGardenId(d, "garden_activities")

\* C7 as written: started on an upgraded database, the Multi-Garden Upgrade
\* script reports "already up to date", ends there and changes nothing.
C7_ReportsUpToDate ==
    [][(Idle /\ Upgraded(db) /\ last'.op = "migrate") =>
          /\ last'.ret = <<"already up to date">>
          /\ pc' = "idle"
          /\ db' = db]_vars

\* C7 amended: started on an upgraded database, the Multi-Garden Upgrade
\* script ends before the backup and run_migration and changes nothing; it
\* reports "already up to date", or the error when a read of the check raised.
C7_UpgradedIsNoOp ==
    [][(Idle /\ Upgraded(db) /\ last'.op = "migrate") =>
          /\ last'.ret \in {<<"already up to date">>, <<"error checking">>}
          /\ pc' = "idle"
          /\ db' = db]_vars

\* The script has just reported "already up to date" on a database that
\* holds a harvest.
C7_Witness ==
    /\ Idle
    /\ last.op = "migrate"
    /\ last.ret = <<"already up to date">>
    /\ Upgraded(db) /\ db = pre
    /\ db.rows["harvests"] # {}

\* C8: a step of either script that changes the database is taken with the
\* run's backup written and equal to the database as the run found it; the
\* steps before the backup change nothing; and once written, the backup
\* stays as it is to the end of the run.
C8_BackupBeforeMutation ==
    [][/\ (~Idle /\ db' # db) => (backup.file /\ backup = pre /\ backup = db)
       /\ (Idle /\ last'.op \in {"migrate", "fix"}) => db' = db
       /\ (~Idle /\ backup.file) => backup' = backup]_vars

\* A run has ended with the database changed and the backup holding the
\* database as it was.
C8_Witness ==
    /\ Idle
    /\ last.op \in {"run_migration", "fix_schema"}
    /\ db # pre
    /\ backup.file /\ backup = pre

\* The answers the claim counts as yes: "y" or "yes" in any case, between
\* any number of blanks.
Yes ==
    {<<a>> : a \in {"y", "Y"}}
        \cup {<<a, b, c>> : a \in {"y", "Y"}, b \in {"e", "E"}, c \in {"s", "S"}}

SaysYes(w) ==
    \E i \in 1..Len(w), j \in 1..Len(w) :
        /\ i <= j
        /\ SubSeq(w, i, j) \in Yes
        /\ \A k \in 1..Len(w) : (k < i \/ k > j) => w[k] \in {" ", "\t"}

\* C9: when the answer read at the prompt of either script is not a yes,
\* the run ends there, the database being as the run found it.
C9_OtherAnswerCancels ==
    [][(pc \in {"mig_read", "fix_read"} /\ ~SaysYes(response)) =>
          /\ pc' = "idle"
          /\ db' = db /\ db = pre
          /\ last'.ret = <<"cancelled", response>>]_vars

\* A run was cancelled on an answer that begins like a yes.
C9_Witness ==
    /\ Idle
    /\ last.op \in {"migrate", "fix"}
    /\ last.ret = <<"cancelled", <<" ", "y", "e">> >>
    /\ db = pre

\* C10: when run_migration returns failure the database is as it was
\* before the run.
C10_FailedMigrationRestores ==
    [][(pc = "mig_run" /\ ~last'.ok) => db' = db]_vars

\* C11: adding an activity, or updating an existing one, with an
\* activity_type other than "watering" and "fertilizing" raises an error and
\* leaves the database as it was, whatever the shape of garden_activities.
C11_BadTypeRejected ==
    [][(/\ Idle
        /\ last'.op \in {"add_garden_activity", "update_garden_activity"}
        /\ last'.ret \notin {<<"watering">>, <<"fertilizing">>})
          => /\ db' = db
             /\ last'.op = "add_garden_activity" => ~last'.ok
             /\ (/\ last'.op = "update_garden_activity"
                 /\ last'.arg \in Ids(db, "garden_activities")) => ~last'.ok]_vars

\* "pruning" was refused for an existing garden on the garden-scoped table.
C11_Witness ==
    /\ Idle
    /\ last.op = "add_garden_activity"
    /\ ~last.ok
    /\ last.ret = <<"pruning">>
    /\ HasGardenId(db, "garden_activities")
    /\ last.arg \in Ids(db, "gardens")

\* C12: on a plants table of the shape the Initializer creates, add_plant
\* for an existing plant type succeeds and returns the id of a new plant,
\* stored with status "active".
C12_AddPlantSucceeds ==
    [][(/\ Idle
        /\ last'.op = "add_plant"
        /\ HasGardenId(db, "plants")
        /\ last'.arg \in Ids(db, "plant_types"))
          => /\ last'.ok
             /\ \E r \in db'.rows["plants"] \ db.rows["plants"] :
                   r.id = last'.ret[1] /\ r.status = "active"]_vars

\* C13: on the garden-scoped schema, a create that names a plant type with
\* no row ends in the not-found outcome (status 404) and leaves the stored
\* rows as they were.
C13_MissingIsNotFound ==
    [][(/\ Idle
        /\ FullyScoped(db)
        /\ last'.op = "post_harvests"
        /\ last'.arg \notin Ids(db, "plant_types"))
          => /\ last'.ret = <<404>>
             /\ db' = db]_vars

\* C14: a database the Initializer created from nothing has garden_id in
\* plant_types and in garden_activities, and check_migration_needed finds
\* no migration needed on it.
C14_FreshDbIsScoped ==
    (scen.on /\ scen.step = 1) =>
        /\ HasGardenId(db, "plant_types")
        /\ HasGardenId(db, "garden_activities")
        /\ ~CheckMigrationNeeded(db, 0)[1]

\* C15: when two Initializer runs are interleaved on a database that has no
\* gardens table, the gardens table ends with exactly one default row.
C15_RaceSeedsOnce ==
    (\A w \in Workers : procs[w].at = Returned) =>
        Cardinality({r \in db.rows["gardens"] : r.name = "My Garden"}) = 1

\* C16: when fix_schema returns failure the database is as it was before
\* the run: no shadow table is left, no table is dropped or renamed.
C16_FailedFixRestores ==
    [][(pc = "fix_run" /\ ~last'.ok) => db' = db]_vars

\* The tables the Garden-Scope Schema Fix rebuilds.
FixedTables == {"harvests", "plants", "plant_journals"}

\* C17: after a successful run_migration, harvests, plants and
\* plant_journals have no garden_id column, whether or not they had one
\* before; after a successful fix_schema run, the one that follows it
\* included, all three have a garden_id column.
C17_UpgradeUnscopesFixScopes ==
    [][/\ (pc = "mig_run" /\ last'.ok) =>
              \A t \in FixedTables : Exists(db', t) /\ ~HasGardenId(db', t)
       /\ (pc = "fix_run" /\ last'.ok) =>
              \A t \in FixedTables : HasGardenId(db', t)]_vars

\* run_migration has succeeded on a database whose three tables had
\* garden_id, one of them holding a row.
C17_Witness ==
    /\ Idle
    /\ last.op = "run_migration" /\ last.ok
    /\ \A t \in FixedTables : HasGardenId(pre, t) /\ ~HasGardenId(db, t)
    /\ pre.rows["harvests"] # {}

\* The tables the Multi-Garden Upgrade gives a garden_id.
UpgradedTables == {"plant_types", "garden_activities"}

\* C18: after a successful run_migration, plant_types and garden_activities
\* have garden_id; one that lacked it holds exactly the rows it had, each
\* with garden_id = 1; one that had it holds its rows unchanged.
C18_UpgradeKeepsRows ==
    [][(last'.op = "run_migration" /\ last'.ok) =>
          \A t \in UpgradedTables :
             /\ HasGardenId(db', t)
             /\ db'.rows[t] = IF HasGardenId(db, t) THEN db.rows[t]
                              ELSE {WithGardenId(r, 1) : r \in db.rows[t]}]_vars

\* run_migration has succeeded on a database whose two tables lacked
\* garden_id and held a row each, a second garden existing.
C18_Witness ==
    /\ last.op = "run_migration" /\ last.ok
    /\ \A t \in UpgradedTables :
          /\ ~HasGardenId(pre, t) /\ HasGardenId(db, t)
          /\ pre.rows[t] # {}
          /\ \A r \in db.rows[t] : r.garden_id = 1
    /\ 2 \in Ids(pre, "gardens")

\* C19: after a successful run_migration a garden with id 1 exists; every
\* garden row there was before the run, one with id 1 included, is
\* unchanged, and no garden row other than id 1 has been added.
C19_UpgradeSeedsGardenOne ==
    [][(last'.op = "run_migration" /\ last'.ok) =>
          /\ 1 \in Ids(db', "gardens")
          /\ db.rows["gardens"] \subseteq db'.rows["gardens"]
          /\ \A r \in db'.rows["gardens"] : r \in db.rows["gardens"] \/ r.id = 1]_vars

\* run_migration has succeeded on a database that held a garden 1 other
\* than the default one.
C19_Witness ==
    /\ last.op = "run_migration" /\ last.ok
    /\ \E r \in pre.rows["gardens"] : r.id = 1 /\ r.name = "Plot" /\ r \in db.rows["gardens"]

\* C20: after a successful fix_schema, each of harvests, plants and
\* plant_journals has garden_id; one that lacked it holds exactly the rows
\* it had, each with the id of the first garden (the lowest id) as
\* garden_id; one that had it holds its rows unchanged.
C20_FixKeepsRows ==
    [][(pc = "fix_run" /\ last'.ok) =>
          \A t \in FixedTables :
             /\ HasGardenId(db', t)
             /\ db'.rows[t] =
                  IF HasGardenId(db, t) THEN db.rows[t]
                  ELSE {WithGardenId(r, SetMin(Ids(db, "gardens"))) : r \in db.rows[t]}]_vars

\* fix_schema has succeeded on a database whose three tables lacked
\* garden_id, with a harvest and a plant, and whose first garden was garden 2.
C20_Witness ==
    /\ Idle
    /\ last.op = "fix_schema" /\ last.ok
    /\ Ids(pre, "gardens") = {2}
    /\ \A t \in FixedTables : ~HasGardenId(pre, t) /\ HasGardenId(db, t)
    /\ pre.rows["harvests"] # {} /\ pre.rows["plants"] # {}
    /\ \A t \in FixedTables : \A r \in db.rows[t] : r.garden_id = 2

\* C21: when the gardens table holds no row, fix_schema returns failure and
\* the schema and the rows of every table are as they were.
C21_NoGardenAborts ==
    [][(/\ pc = "fix_run"
        /\ Exists(db, "gardens")
        /\ db.rows["gardens"] = {})
          => ~last'.ok /\ db' = db]_vars

\* fix_schema has returned failure on a database with an empty gardens
\* table and a harvest without garden_id.
C21_Witness ==
    /\ Idle
    /\ last.op = "fix_schema" /\ ~last.ok
    /\ Exists(pre, "gardens") /\ pre.rows["gardens"] = {}
    /\ ~HasGardenId(pre, "harvests") /\ pre.rows["harvests"] # {}
    /\ db = pre

\* C22: an Initializer run leaves every table that existed before it with
\* the same columns and the same rows; a table it creates is empty, except
\* gardens, which holds at most the one default row; shadow tables are not
\* created.
C22_InitKeepsExisting ==
    [][(Idle /\ last'.op = "init_db") =>
          \A t \in AllTables :
             IF Exists(db, t)
             THEN db'.shape[t] = db.shape[t] /\ db'.rows[t] = db.rows[t]
             ELSE /\ t \in ShadowTables => ~Exists(db', t)
                  /\ t \in ChildTables => db'.rows[t] = {}
                  /\ t = "gardens" =>
                        /\ Cardinality(db'.rows[t]) <= 1
                        /\ \A r \in db'.rows[t] : r.name = "My Garden"]_vars

\* The Initializer has run on a legacy database: its harvest is still
\* there, without garden_id, beside the seeded gardens table.
C22_Witness ==
    /\ Idle
    /\ last.op = "init_db"
    /\ ~HasGardenId(db, "harvests") /\ db.rows["harvests"] # {}
    /\ ~HasGardenId(db, "plant_types") /\ db.rows["plant_types"] # {}
    /\ db.rows["gardens"] # {}

C24_DefaultsToFirstGarden ==
    [][(/\ Idle
        /\ last'.op = "get_current_garden_id"
        /\ last'.arg = 0
        /\ Exists(db, "gardens"))
          => IF db.rows["gardens"] # {}
             THEN /\ last'.ret = <<SetMin(Ids(db, "gardens"))>>
                  /\ db' = db
             ELSE \E r \in db'.rows["gardens"] :
                     /\ db'.rows["gardens"] = {r}
                     /\ r.name = "My Garden"
                     /\ last'.ret = <<r.id>>]_vars

\* Both processes have made an update call on the same row and both calls
\* have ended.
TwoUpdatesOver ==
    /\ \A w \in Workers : procs[w].call # NoCall /\ procs[w].at = UpdateReturned
    /\ \A v, w \in Workers :
          procs[v].call.t = procs[w].call.t /\ procs[v].call.id = procs[w].call.id

\* The row of table t with this id holds all the values the call wrote.
HoldsAll(call) ==
    \E r \in db.rows[call.t] :
        r.id = call.id /\ \A f \in DOMAIN call.row : r[f] = call.row[f]

\* C25 as written: when two update calls on the same row run concurrently,
\* both report success and the row ends with exactly the values written by
\* the call that committed last.
C25_BothUpdatesSucceed ==
    TwoUpdatesOver =>
        /\ \A w \in Workers : procs[w].outcome = "ok"
        /\ last.op \in {"update_garden", "update_plant"} /\ last.ok
        /\ HoldsAll(procs[last.arg].call)

\* C25 amended: each of the two calls reports success or raises "database
\* is locked"; at least one reports success, and the row ends with exactly
\* the values written by the call that committed last, never a mix.
C25_LastCommitWins ==
    TwoUpdatesOver =>
        /\ \A w \in Workers : procs[w].outcome \in {"ok", "locked"}
        /\ last.op \in {"update_garden", "update_plant"} /\ last.ok
        /\ procs[last.arg].outcome = "ok"
        /\ HoldsAll(procs[last.arg].call)

\* Two calls that write different values to the same plant have both
\* reported success.
C25_Witness ==
    /\ TwoUpdatesOver
    /\ \A w \in Workers : procs[w].outcome = "ok" /\ procs[w].call.t = "plants"
    /\ procs[1].call # procs[2].call

\* The call stored a row: it did not raise and its table holds a new row
\* with the id it returned.
Stored(r, t) ==
    /\ ~r.raised
    /\ r.id \in Ids(r.db, t) \ Ids(db, t)

\* C26: on a database brought to the garden-scoped schema by the pipeline,
\* each of add_garden, add_plant_type, add_harvest, add_garden_activity,
\* add_plant and add_journal_entry, called with ids of existing parents,
\* succeeds and stores a row.
C26_CreatesSucceed ==
    (Idle /\ FullyScoped(db)) =>
        /\ Stored(add_garden(db, "Plot", "", CurrentYear, ""), "gardens")
        /\ \A g \in Ids(db, "gardens") :
              /\ Stored(add_plant_type(db, g, "Tomato", ""), "plant_types")
              /\ Stored(add_garden_activity(db, g, "watering", 20240801, ""),
                        "garden_activities")
              /\ \A pt \in Ids(db, "plant_types") :
                    Stored(add_harvest(db, g, pt, 50, "lbs", 20240801, ""), "harvests")
        /\ \A pt \in Ids(db, "plant_types") :
              Stored(add_plant(db, pt, "Cherry Tom #1", "", ""), "plants")
        /\ \A plant \in Ids(db, "plants") :
              Stored(add_journal_entry(db, plant, 20240801, "sprouted"), "plant_journals")

\* C27: over an Initializer run, a run_migration the script's check let
\* through, or a fix_schema run, a table that has garden_id keeps the column,
\* and each of its rows that remains keeps its garden_id value.
C27_ScopeIsKept ==
    [][(\/ Idle /\ last'.op = "init_db"
        \/ pc \in {"mig_run", "fix_run"})
          => \A t \in ChildTables :
                HasGardenId(db, t) =>
                    /\ HasGardenId(db', t)
                    /\ \A r \in db.rows[t] : \A q \in db'.rows[t] :
                          q.id = r.id => q.garden_id = r.garden_id]_vars


\* A row without its garden_id value.
Unscoped(r) == WithGardenId(r, NoCol)

\* C28: over a successful run_migration or fix_schema, each child table
\* holds the row ids it held, one row per id, and each row keeps the value
\* of every column the table has before and after the run.
C28_RunsKeepRows ==
    [][(pc \in {"mig_run", "fix_run"} /\ last'.ok) =>
          \A t \in ChildTables :
             /\ Ids(db', t) = Ids(db, t)
             /\ Cardinality(db'.rows[t]) = Cardinality(Ids(db', t))
             /\ \A r \in db.rows[t] : \A q \in db'.rows[t] :
                   q.id = r.id =>
                      /\ Unscoped(q) = Unscoped(r)
                      /\ (HasGardenId(db, t) /\ HasGardenId(db', t))
                            => q.garden_id = r.garden_id]_vars

\* run_migration has succeeded on a database holding a row in each of the
\* five child tables, and every one of them has been rebuilt.
C28_Witness ==
    /\ Idle
    /\ last.op = "run_migration" /\ last.ok
    /\ \A t \in ChildTables : pre.rows[t] # {} /\ HasGardenId(pre, t) # HasGardenId(db, t)


\* C29: what get_harvests(G) returns lists every harvest row whose garden_id
\* is G exactly once.
C29_EveryHarvestListed ==
    (last.op = "get_harvests" /\ last.ok) =>
        \A h \in db.rows["harvests"] :
           h.garden_id = last.arg =>
              Cardinality({p \in (1..Len(last.ret)) \X HarvestIds :
                              /\ p[2] <= Len(last.ret[p[1]].harvests)
                              /\ last.ret[p[1]].harvests[p[2]].id = h.id}) = 1


\* C30: when the gardens table is empty and two requests without a
\* garden_id are served concurrently, at most one of them creates a default
\* garden and both resolve to the same garden id.
C30_OneDefaultGarden ==
    (/\ \A w \in Workers : procs[w].call = DefaultGardenCall /\ procs[w].outcome = "ok"
     /\ Exists(pre, "gardens")
     /\ pre.rows["gardens"] = {})
        => /\ Cardinality(db.rows["gardens"]) <= 1
           /\ \A v, w \in Workers : procs[v].ret = procs[w].ret

====
